---- MODULE Spec2Model ----
(***************************************************************************)
(* svrmgr Discord bot (src/src/main.py): the request handler that          *)
(* authenticates a Discord interaction, routes it, authorizes start/stop   *)
(* against the ownership tag of the EC2 instance, issues the lifecycle     *)
(* call and re-renders the button grid.                                    *)
(*                                                                         *)
(* Conventions.  A Python Optional is a sequence of length 0 (None) or 1.  *)
(* A custom id / instance id is a sequence of lexemes: ":" or a            *)
(* colon-free word, so that str.split(":") can be computed.  A text body   *)
(* or a label is a sequence of string pieces (their concatenation).        *)
(***************************************************************************)
EXTENDS Naturals, Integers, Sequences, FiniteSets, TLC

VARIABLES
    verify_key,     \* TRUE iff SVRMGR_DISCORD_APP_PUBLIC_KEY is set (main.py:29-31)
    tagIndex,       \* provider: the EC2 tag index, in the order describe_tags lists it
    instanceState,  \* provider: lifecycle state of every instance
    paging,         \* provider: sizes of the first response pages of a listing
    outages,        \* provider: TRUE iff a describe call may be answered by an error
    lanes,          \* how many invocations of the Lambda may be in flight at once
    inv             \* per invocation: position in handle_request and its locals

vars == <<verify_key, tagIndex, instanceState, paging, outages, lanes, inv>>

(*************************** bounds and constants **************************)
MaxTags == 3          \* longest provider tag index explored
PageSize == 2         \* most items the provider puts on one response page
MaxPages == 2         \* longest run of first pages whose sizes are explored
SignatureBytes == 64  \* nacl.bindings.crypto_sign_BYTES, checked by VerifyKey.verify

TAG_KEY == "svrmgr-message-id"
NAME_KEY == "Name"

Invocations == {1, 2}
Instances == {"i-1", "i-2"}
MsgIds == {"M1", "M2"}
Names == {"db", ""}

None == <<>>
Some(x) == <<x>>
Opt(S) == {None} \cup {Some(x) : x \in S}

\* str ordering of Python on the strings that can be sort keys
Alphabetical == <<"db", "i-1", "i-2", "web">>
StrRank(s) == CHOOSE k \in 1..Len(Alphabetical) : Alphabetical[k] = s
StrLess(a, b) == StrRank(a) < StrRank(b)

(******************************* InstanceState *****************************)
InstanceState ==
    {"pending", "running", "shutting-down", "terminated", "stopping", "stopped"}

(***************************** custom identifiers **************************)
Words == {"start", "stop", "refresh", "launch"}
Targets == {"i-1", "i-2", "i-9"}
CustomIds ==
    {<<>>}
    \cup {<<w>> : w \in Words}
    \cup {<<w, ":">> : w \in Words}
    \cup {<<w, ":", x>> : w \in Words, x \in Targets}
    \cup {<<"start", ":", "i-1", ":", "x">>}

\* index of the first ":" of s at or after position k, or 0
RECURSIVE find_colon(_, _)
find_colon(s, k) ==
    IF k > Len(s) THEN 0
    ELSE IF s[k] = ":" THEN k
    ELSE find_colon(s, k + 1)

\* custom_id.split(":")[0]
split_first(s) ==
    LET c == find_colon(s, 1)
    IN IF c = 0 THEN s ELSE SubSeq(s, 1, c - 1)

\* custom_id.split(":", maxsplit=1)
split_at_last_colon(s) ==
    LET colons == {k \in 1..Len(s) : s[k] = ":"}
        c == CHOOSE k \in colons : \A j \in colons : j <= k
    IN IF colons = {} THEN <<s>>
       ELSE <<SubSeq(s, 1, c - 1), SubSeq(s, c + 1, Len(s))>>
split_maxsplit1(s) ==
    LET c == find_colon(s, 1)
    IN IF c = 0 THEN <<s>>
       ELSE <<SubSeq(s, 1, c - 1), SubSeq(s, c + 1, Len(s))>>

(********************************* requests ********************************)
InteractionTypes == {0, 1, 2, 3}
JsonKinds == {"null", "array", "string", "number", "object"}
\* the "message" / "data" member of the payload: missing or falsy, an
\* object, or any other truthy value (a string, a number, a list)
Members == {"absent", "object", "other"}

\* a payload: its type, its message member and the id in it, its data member
\* and the custom_id in it, which is a str (custom_id) or a non-zero int
NoFields ==
    [kind |-> "null", type |-> None, message |-> "absent", message_id |-> None,
     data |-> "absent", custom_id |-> None, custom_id_type |-> "str"]
JsonValues ==
    {[NoFields EXCEPT !.kind = k] : k \in JsonKinds \ {"object"}}
    \cup {d \in [kind : {"object"}, type : Opt(InteractionTypes),
                 message : Members, message_id : Opt(MsgIds),
                 data : Members, custom_id : Opt(CustomIds),
                 custom_id_type : {"str", "int"}] :
            /\ d.message # "object" => d.message_id = None
            /\ d.data # "object" => d.custom_id = None /\ d.custom_id_type = "str"
            /\ d.custom_id_type = "int" => d.custom_id = None}

\* {"type": 3, "message": {"id": message_id}, "data": {"custom_id": custom_id}}
Component(message_id, custom_id) ==
    [kind |-> "object", type |-> Some(3), message |-> "object",
     message_id |-> Some(message_id), data |-> "object",
     custom_id |-> Some(custom_id), custom_id_type |-> "str"]

\* raw request bodies: absent, b"", bytes that are not UTF-8, text that is
\* not JSON, or the UTF-8 JSON text of a value
Bodies ==
    {[form |-> f, data |-> NoFields] : f \in {"none", "empty", "badutf8", "badjson"}}
    \cup {[form |-> "json", data |-> d] : d \in JsonValues}

Timestamps == Opt({"t1"})

\* main.py:339  message = timestamp + (request.body or b"")
signed_message(ts, body) == [ts |-> ts, body |-> body]
message_is_empty(m) == m.ts = None /\ m.body.form \in {"none", "empty"}

\* a signature header: hex text of `len` bytes that are the Ed25519
\* signature of message `of` under the application key, or non-hex text
ReplayedMessage == signed_message(Some("t0"), [form |-> "json", data |-> NoFields])
SigHeaders(m) ==
    { [hex |-> FALSE, len |-> 0, of |-> ReplayedMessage],
      [hex |-> TRUE, len |-> 3, of |-> ReplayedMessage],
      [hex |-> TRUE, len |-> SignatureBytes, of |-> ReplayedMessage],
      [hex |-> TRUE, len |-> SignatureBytes, of |-> m] }

Request(sig, ts, body) == [sig |-> sig, ts |-> ts, body |-> body]

(******************************** responses ********************************)
NoData == [type |-> 0, components |-> <<>>]

\* HTTPError.to_response (main.py:140-145)
to_response(message, status_code) ==
    [status_code |-> status_code, content_type |-> "text/plain; charset=utf-8",
     text |-> <<message>>, data |-> NoData]

\* HTTPResponse.from_exception for an exception that is not an HTTPError
\* (main.py:86-92): body is "<class name>: <message>"
from_exception_without_body(class_name, message) ==
    [status_code |-> 500, content_type |-> "text/plain; charset=utf-8",
     text |-> <<>>, data |-> NoData]
from_exception(class_name, message) ==
    [status_code |-> 500, content_type |-> "text/plain; charset=utf-8",
     text |-> <<class_name, ": ">> \o message, data |-> NoData]

\* HTTPResponse.from_json_body_data (main.py:95-100)
from_json_body_data(status_code, data) ==
    [status_code |-> status_code,
     content_type |-> "application/json; charset=utf-8",
     text |-> <<>>, data |-> data]

\* `not self.body` (main.py:106) for the bytes the response carries: the
\* UTF-8 text of its pieces, or the JSON text of its data
body_is_empty(response) ==
    /\ response.content_type = "text/plain; charset=utf-8"
    /\ \A k \in 1..Len(response.text) : response.text[k] = ""

\* content_type_header.startswith("text/") or .startswith("application/json")
\* (main.py:115-118)
is_textual(content_type) ==
    content_type \in {"text/plain; charset=utf-8", "application/json; charset=utf-8"}

\* HTTPResponse.to_lambda_result (main.py:102-127): the Lambda result, or
\* the RuntimeError for a body-less response whose status is not 204
to_lambda_result(response) ==
    IF response.status_code # 204 /\ body_is_empty(response)
    THEN [raised |-> "RuntimeError", statusCode |-> response.status_code,
          headers |-> response.content_type, hasBody |-> FALSE,
          isBase64Encoded |-> FALSE, text |-> <<>>, data |-> NoData]
    ELSE [raised |-> "", statusCode |-> response.status_code,
          headers |-> response.content_type,
          hasBody |-> response.status_code # 204,
          isBase64Encoded |-> ~is_textual(response.content_type),
          text |-> response.text, data |-> response.data]

\* repr() of a str made of the lexemes s
repr(s) == <<"'">> \o s \o <<"'">>

(********************************* provider ********************************)
\* whether the provider answers a describe call (TRUE) or fails it with a
\* botocore ClientError (FALSE)
Answers == IF outages THEN BOOLEAN ELSE {TRUE}

\* what main makes of a ClientError raised by an ec2_client call
client_error == from_exception("ClientError", <<"An error occurred when calling the operation">>)

Tag(r, k, v) == [ResourceId |-> r, Key |-> k, Value |-> v]
TagEntries ==
    {Tag(r, TAG_KEY, m) : r \in Instances, m \in MsgIds}
    \cup {Tag(r, NAME_KEY, n) : r \in Instances, n \in Names}
TagIndexes == UNION {[1..n -> TagEntries] : n \in 0..MaxTags}

\* ec2_client.describe_tags with the filters of list_instances (main.py:208-214)
describe_tags_by_key(index, tag_keys) ==
    SelectSeq(index, LAMBDA e : e.Key \in tag_keys)

\* ec2_client.describe_tags with the filters of get_message_id_for_instance
\* (main.py:277-283); instance_id is the lexeme sequence taken from the
\* custom id, a resource id is one colon-free word
describe_tags_of_any_instance(index, instance_id) ==
    SelectSeq(index, LAMBDA e : e.Key = TAG_KEY)
describe_tags_of_instance(index, instance_id) ==
    SelectSeq(index, LAMBDA e : <<e.ResourceId>> = instance_id /\ e.Key = TAG_KEY)

\* a continuation token: how many pages were served, how many items they held
Token(page, offset) == [page |-> page, offset |-> offset]
FirstPage == Token(0, 0)

\* one provider response page: page number token.page + 1 holds as many of
\* the items after token.offset as `paging` says (PageSize once `paging` is
\* used up), and a next token while items or pages of `paging` remain
Page(items, token) ==
    LET size == IF token.page < Len(paging) THEN paging[token.page + 1] ELSE PageSize
        last == IF token.offset + size < Len(items) THEN token.offset + size
                ELSE Len(items)
    IN [Items |-> SubSeq(items, token.offset + 1, last),
        NextToken |-> IF last < Len(items) \/ token.page + 1 < Len(paging)
                      THEN Some(Token(token.page + 1, last)) ELSE None]

Call(op, ids, token) == [op |-> op, ids |-> ids, token |-> token]

\* while response.get("NextToken") (main.py:191): another page is asked for
pages_continue_if_items(response) ==
    response.NextToken # None /\ response.Items # <<>>
pages_continue(response) == response.NextToken # None

(******************************* list_instances ****************************)
NoTags == [owner |-> None, name |-> None]
Instance(id, tags, state) == [id |-> id, tags |-> tags, state |-> state]

\* tags_for_instance[tag["Key"]] = tag["Value"] (main.py:226)
set_tag(tags, e) ==
    IF e.Key = TAG_KEY THEN [tags EXCEPT !.owner = Some(e.Value)]
    ELSE [tags EXCEPT !.name = Some(e.Value)]

\* position of instance `id` in the list, or 0
RECURSIVE index_of(_, _, _)
index_of(list, id, k) ==
    IF k > Len(list) THEN 0
    ELSE IF list[k].id = id THEN k
    ELSE index_of(list, id, k + 1)

\* the grouping loop of list_instances (main.py:220-230): a dict keeps the
\* order of first insertion, a later value of a key replaces the earlier
RECURSIVE group_tags(_, _)
group_tags(tags, acc) ==
    IF tags = <<>> THEN acc
    ELSE LET e == Head(tags)
             k == index_of(acc, e.ResourceId, 1)
         IN IF k = 0
            THEN group_tags(Tail(tags),
                     Append(acc, Instance(e.ResourceId, set_tag(NoTags, e), None)))
            ELSE group_tags(Tail(tags),
                     [acc EXCEPT ![k].tags = set_tag(acc[k].tags, e)])

\* x.tags.get("Name") or x.id  (main.py:423, 435)
display_name(i) ==
    IF i.tags.name # None /\ i.tags.name[1] # "" THEN i.tags.name[1] ELSE i.id

\* sorted(instances, key=...) (main.py:423): stable insertion into a
\* sorted prefix, after every element whose key is not greater
RECURSIVE insert_sorted(_, _)
insert_sorted(sorted, x) ==
    IF sorted = <<>> THEN <<x>>
    ELSE IF StrLess(display_name(x), display_name(Head(sorted)))
         THEN <<x>> \o sorted
         ELSE <<Head(sorted)>> \o insert_sorted(Tail(sorted), x)

RECURSIVE sorted_by_name(_)
sorted_by_name(list) ==
    IF list = <<>> THEN <<>>
    ELSE insert_sorted(sorted_by_name(SubSeq(list, 1, Len(list) - 1)), list[Len(list)])

\* [i for i in instances if i.tags.get(TAG_KEY) == message_id] (main.py:422)
owned_by_anyone(instances, message_id) == instances
owned_by(instances, message_id) ==
    SelectSeq(instances, LAMBDA i : i.tags.owner = Some(message_id))

(********************************* rendering *******************************)
Button(label, style, custom_id) ==
    [label |-> label, style |-> style, custom_id |-> custom_id]

RefreshRow == Button(<<"U+21BB">>, 2, <<"refresh">>)

\* the row of one instance (main.py:434-453)
instance_row_start_unless_running(i) ==
    IF i.state = Some("running")
    THEN Button(<<"Stop ", display_name(i)>>, 4, <<"stop", ":", i.id>>)
    ELSE Button(<<"Start ", display_name(i)>>, 3, <<"start", ":", i.id>>)
instance_row(i) ==
    IF i.state = Some("stopped")
    THEN Button(<<"Start ", display_name(i)>>, 3, <<"start", ":", i.id>>)
    ELSE IF i.state = Some("running")
    THEN Button(<<"Stop ", display_name(i)>>, 4, <<"stop", ":", i.id>>)
    ELSE Button(<<display_name(i), " (",
                  IF i.state # None THEN i.state[1] ELSE "unknown", ")">>,
                2, <<"refresh", ":", i.id>>)

\* server_components (main.py:428-453)
server_components(instances) ==
    <<RefreshRow>> \o [k \in 1..Len(instances) |-> instance_row(instances[k])]

\* the message-update response (main.py:456-461)
update_message(instances) ==
    from_json_body_data(200, [type |-> 7, components |-> server_components(instances)])

(******************************** invocations ******************************)
NoRequest == Request(None, None, [form |-> "none", data |-> NoFields])

Idle ==
    [pc |-> "idle", request |-> NoRequest, message_id |-> None,
     custom_id |-> <<>>, action |-> "", instance_id |-> <<>>,
     instance_message_id |-> None, token |-> None, tags |-> <<>>,
     statuses |-> <<>>, instances |-> <<>>, calls |-> <<>>,
     response |-> None, result |-> None]

\* main (main.py:464-476): the response handle_request returned, or the one
\* built from the exception it raised, ends the invocation
Return(p, response) ==
    inv' = [inv EXCEPT ![p].pc = "done", ![p].response = Some(response)]

Raise(p, class_name, message) == Return(p, from_exception(class_name, message))

RaiseHTTPError(p, message, status_code) == Return(p, to_response(message, status_code))

\* The Lambda runtime invokes main with a new event.
Receive(p, request) ==
    /\ p <= lanes
    /\ inv[p].pc = "idle"
    /\ inv' = [inv EXCEPT ![p] = [Idle EXCEPT !.pc = "verify", !.request = request]]
    /\ UNCHANGED <<verify_key, tagIndex, instanceState, paging, outages, lanes>>

\* main.py:475-476: main encodes the response it holds and returns it
Encode(p) ==
    /\ inv[p].pc = "done"
    /\ inv' = [inv EXCEPT ![p].pc = "returned",
                          ![p].result = Some(to_lambda_result(inv[p].response[1]))]
    /\ UNCHANGED <<verify_key, tagIndex, instanceState, paging, outages, lanes>>

\* The invocation is over: nothing local to it survives the response.
Finish(p) ==
    /\ inv[p].pc = "returned"
    /\ inv' = [inv EXCEPT ![p] = Idle]
    /\ UNCHANGED <<verify_key, tagIndex, instanceState, paging, outages, lanes>>

(************************ verify_discord_request_auth **********************)
\* VerifyKey.verify(message, signature) of PyNaCl: a signature that is not
\* crypto_sign_BYTES long raises nacl.exceptions.ValueError in the releases
\* that check the length and BadSignatureError in the older ones; a
\* signature of the right length verifies iff it signs this message.
verify_outcomes(message, signature_len, signature_of) ==
    IF signature_len # SignatureBytes THEN {"ValueError", "BadSignatureError"}
    ELSE IF signature_of = message THEN {"ok"}
    ELSE {"BadSignatureError"}

\* main.py:322-347
Verify(p) ==
    LET request == inv[p].request
        header == request.sig
        message == signed_message(request.ts, request.body)
    IN
    /\ inv[p].pc = "verify"
    /\ IF ~verify_key
       THEN inv' = [inv EXCEPT ![p].pc = "route"]
       ELSE IF header # None /\ ~header[1].hex
       THEN \* bytes.fromhex raises ValueError
            Raise(p, "ValueError", <<"non-hexadecimal number found in fromhex() arg">>)
       ELSE IF message_is_empty(message)
       THEN RaiseHTTPError(p, "missing request signature", 401)
       ELSE \E outcome \in verify_outcomes(message,
                               IF header = None THEN 0 ELSE header[1].len,
                               IF header = None THEN ReplayedMessage ELSE header[1].of) :
               CASE outcome = "ok" -> inv' = [inv EXCEPT ![p].pc = "route"]
                 [] outcome = "BadSignatureError" ->
                        RaiseHTTPError(p, "invalid request signature", 401)
                 [] outcome = "ValueError" ->
                        Raise(p, "ValueError", <<"The signature must be exactly 64 bytes long">>)
    /\ UNCHANGED <<verify_key, tagIndex, instanceState, paging, outages, lanes>>

(**************************** parsing and routing **************************)
\* HTTPRequest.get_json_body_data (main.py:67-70): None for no body, else
\* json.loads(body.decode("utf-8")), which raises on undecodable input
get_json_body_data(body) ==
    CASE body.form = "none" -> [raised |-> "", value |-> NoFields]
      [] body.form = "badutf8" -> [raised |-> "UnicodeDecodeError", value |-> NoFields]
      [] body.form \in {"empty", "badjson"} ->
            [raised |-> "JSONDecodeError", value |-> NoFields]
      [] OTHER -> [raised |-> "", value |-> body.data]

\* isinstance(request_data, dict) (main.py:365)
is_dict(request_data) == request_data.kind = "object"

\* interaction_type == 1 (main.py:374)
is_ping_zero(interaction_type) == interaction_type = Some(0)
is_ping(interaction_type) == interaction_type = Some(1)

\* not (interaction_type != 3) (main.py:379)
is_message_component(interaction_type) == interaction_type = Some(3)

\* custom_id.split(":")[0] in ["start", "stop"] (main.py:395)
is_lifecycle_or_refresh_id(custom_id) ==
    split_first(custom_id) \in {<<"start">>, <<"stop">>, <<"refresh">>}
is_lifecycle_id(custom_id) == split_first(custom_id) \in {<<"start">>, <<"stop">>}

\* not (custom_id != "refresh" and custom_id.split(":")[0] != "refresh") (main.py:416)
is_refresh_id(custom_id) ==
    custom_id = <<"refresh">> \/ split_first(custom_id) = <<"refresh">>

\* handle_request from get_json_body_data to the custom-id dispatch
\* (main.py:363-396, 416-417; get_json_body_data main.py:67-70)
Route(p) ==
    LET body == inv[p].request.body
        parsed == get_json_body_data(body)
        request_data == parsed.value
        interaction_type == request_data.type
        message_id == request_data.message_id
        custom_id == request_data.custom_id
    IN
    /\ inv[p].pc = "route"
    /\ IF parsed.raised # ""
       THEN Raise(p, parsed.raised, <<"cannot decode the request body">>)
       ELSE IF ~is_dict(request_data)
       THEN RaiseHTTPError(p, "Bad request body: not an object", 400)
       ELSE IF interaction_type = None
       THEN RaiseHTTPError(p, "Bad request body: missing type", 400)
       ELSE IF is_ping(interaction_type)
       THEN Return(p, from_json_body_data(200, [type |-> 1, components |-> <<>>]))
       ELSE IF ~is_message_component(interaction_type)
       THEN RaiseHTTPError(p, "Unsupported interaction type", 400)
       ELSE IF request_data.message = "other"
       THEN \* (request_data.get("message") or {}).get on a str, int or list
            Raise(p, "AttributeError", <<"object has no attribute 'get'">>)
       ELSE IF message_id = None
       THEN RaiseHTTPError(p, "Bad request body: missing message ID", 400)
       ELSE IF request_data.data = "other"
       THEN Raise(p, "AttributeError", <<"object has no attribute 'get'">>)
       ELSE IF request_data.custom_id_type = "int"
       THEN \* a non-zero int passes `not custom_id`; custom_id.split raises
            Raise(p, "AttributeError", <<"'int' object has no attribute 'split'">>)
       ELSE IF custom_id = None \/ custom_id = Some(<<>>)
       THEN RaiseHTTPError(p, "Bad request body: missing component custom ID", 400)
       ELSE IF is_lifecycle_id(custom_id[1])
       THEN LET parts == split_maxsplit1(custom_id[1])
            IN IF Len(parts) # 2
               THEN \* action, instance_id = ... cannot unpack one value
                    Raise(p, "ValueError",
                          <<"not enough values to unpack (expected 2, got 1)">>)
               ELSE inv' = [inv EXCEPT ![p].pc = "authorize",
                                       ![p].message_id = message_id,
                                       ![p].custom_id = custom_id[1],
                                       ![p].action = parts[1][1],
                                       ![p].instance_id = parts[2]]
       ELSE IF ~is_refresh_id(custom_id[1])
       THEN RaiseHTTPError(p, "Unknown component custom ID", 400)
       ELSE inv' = [inv EXCEPT ![p].pc = "list",
                               ![p].message_id = message_id,
                               ![p].custom_id = custom_id[1]]
    /\ UNCHANGED <<verify_key, tagIndex, instanceState, paging, outages, lanes>>

(************************** authorization and mutation *********************)
\* get_message_id_for_instance (main.py:261-297): what it raises, or the
\* value it returns
get_message_id_for_instance(index, instance_id) ==
    LET tags == describe_tags_of_instance(index, instance_id)
    IN IF tags = <<>> THEN [raised |-> "NotManaged", value |-> None]
       ELSE IF Len(tags) > 2 THEN [raised |-> "RuntimeError", value |-> None]
       ELSE [raised |-> "", value |-> Some(tags[1].Value)]

\* not (instance_message_id != message_id) (main.py:406)
any_message_may_press(instance_message_id, message_id) == TRUE
same_message(instance_message_id, message_id) == instance_message_id = message_id

\* the HTTPError raised in place of NotManaged (main.py:400-404)
not_managed_response_naming_instance(instance_id) ==
    to_response(IF \E i \in Instances : <<i>> = instance_id
                THEN "Not allowed: instance isn't managed by svrmgr"
                ELSE "Not allowed: instance doesn't exist", 403)
not_managed_response(instance_id) ==
    to_response("Not allowed: instance doesn't exist or isn't managed by svrmgr", 403)

\* the authorization step of handle_request (main.py:398-409)
Authorize(p) ==
    LET instance_id == inv[p].instance_id
        resolved == get_message_id_for_instance(tagIndex, instance_id)
        called == Append(inv[p].calls, Call("describe_tags", <<instance_id>>, None))
    IN
    /\ inv[p].pc = "authorize"
    /\ \E answered \in Answers :
       IF ~answered
       THEN inv' = [inv EXCEPT ![p].pc = "done", ![p].calls = called,
                ![p].response = Some(client_error)]
       ELSE IF resolved.raised = "NotManaged"
       THEN inv' = [inv EXCEPT ![p].pc = "done", ![p].calls = called,
                ![p].response = Some(not_managed_response(instance_id))]
       ELSE IF resolved.raised = "RuntimeError"
       THEN inv' = [inv EXCEPT ![p].pc = "done", ![p].calls = called,
                ![p].response = Some(from_exception("RuntimeError",
                    <<"Found multiple tags on EC2 instance ">> \o repr(instance_id)
                    \o <<" with key ">> \o repr(<<TAG_KEY>>)))]
       ELSE IF ~same_message(resolved.value, inv[p].message_id)
       THEN inv' = [inv EXCEPT ![p].pc = "done", ![p].calls = called,
                ![p].instance_message_id = resolved.value,
                ![p].response = Some(to_response(
                    "Not allowed: instance isn't managed by this message", 403))]
       ELSE inv' = [inv EXCEPT ![p].pc = "lifecycle", ![p].calls = called,
                ![p].instance_message_id = resolved.value]
    /\ UNCHANGED <<verify_key, tagIndex, instanceState, paging, outages, lanes>>

\* what the provider does to an instance on an accepted lifecycle request
started(state) == IF state = "stopped" THEN "pending" ELSE state
stopped(state) == IF state \in {"running", "pending"} THEN "stopping" ELSE state

\* the branch on action (main.py:411-415): the provider operation called
lifecycle_op_always_stop(action) == "stop_instances"
lifecycle_op(action) == IF action = "start" THEN "start_instances" ELSE "stop_instances"

\* start_instance / stop_instance (main.py:300-319, 411-415); the provider
\* accepts the request or answers with an error (botocore ClientError)
Lifecycle(p) ==
    LET instance_id == inv[p].instance_id
        op == lifecycle_op(inv[p].action)
        called == Append(inv[p].calls, Call(op, <<instance_id>>, None))
    IN
    /\ inv[p].pc = "lifecycle"
    /\ \E accepted \in BOOLEAN :
          IF accepted
          THEN /\ inv' = [inv EXCEPT ![p].pc = "list", ![p].calls = called]
               /\ instanceState' =
                    [i \in Instances |->
                        IF <<i>> # instance_id THEN instanceState[i]
                        ELSE IF op = "start_instances" THEN started(instanceState[i])
                        ELSE stopped(instanceState[i])]
          ELSE /\ inv' = [inv EXCEPT ![p].pc = "done", ![p].calls = called,
                    ![p].response = Some(client_error)]
               /\ UNCHANGED instanceState
    /\ UNCHANGED <<verify_key, tagIndex, paging, outages, lanes>>

(********************************* re-render *******************************)
\* list_instances (main.py:197-230), one describe_tags call at a time: the
\* generator of main.py:217 asks for a page, the grouping loop consumes it,
\* and the provider may change before the next page is asked for.  After
\* the last page: the instances, filtered and sorted (main.py:420-423).
ListInstances(p) ==
    LET token == inv[p].token
        response == Page(describe_tags_by_key(tagIndex, {TAG_KEY, NAME_KEY}),
                         IF token = None THEN FirstPage ELSE token[1])
        called == Append(inv[p].calls, Call("describe_tags", <<>>, token))
        tags == inv[p].tags \o response.Items
    IN
    /\ inv[p].pc = "list"
    /\ \E answered \in Answers :
       IF ~answered
       THEN inv' = [inv EXCEPT ![p].pc = "done", ![p].calls = called,
                       ![p].tags = <<>>, ![p].token = None,
                       ![p].response = Some(client_error)]
       ELSE IF pages_continue(response)
       THEN inv' = [inv EXCEPT ![p].calls = called, ![p].tags = tags,
                               ![p].token = response.NextToken]
       ELSE inv' = [inv EXCEPT ![p].pc = "status", ![p].calls = called,
                       ![p].tags = <<>>, ![p].token = None,
                       ![p].instances =
                           sorted_by_name(owned_by(group_tags(tags, <<>>),
                                                   inv[p].message_id[1]))]
    /\ UNCHANGED <<verify_key, tagIndex, instanceState, paging, outages, lanes>>

\* ec2_client.describe_instance_status(InstanceIds=ids, IncludeAllInstances=True):
\* the statuses of the named instances, of all instances when ids is empty
describe_instance_status(states, ids) ==
    LET all == <<"i-1", "i-2">>
        named == SelectSeq(all, LAMBDA i : ids = <<>> \/ \E k \in 1..Len(ids) : ids[k] = <<i>>)
    IN [k \in 1..Len(named) |-> [InstanceId |-> named[k], Name |-> states[named[k]]]]

\* instance_statuses_by_instance_id[id]["InstanceState"]["Name"] (main.py:252,
\* 257): the last status listed for the instance.  An answered listing holds
\* a status for every instance id it was asked for, so the lookup finds one.
status_by_instance_id(statuses, id) ==
    LET at == {k \in 1..Len(statuses) : statuses[k].InstanceId = id}
    IN statuses[CHOOSE k \in at : \A j \in at : j <= k].Name

\* get_instances_state (main.py:233-258), one describe_instance_status call
\* at a time; after the last page the states are assigned, the grid is
\* rendered and handle_request returns (main.py:255-258, 425-461); a state
\* name outside the enum makes InstanceState(...) raise (main.py:256)
GetInstancesState(p) ==
    LET instances == inv[p].instances
        ids == [k \in 1..Len(instances) |-> <<instances[k].id>>]
        token == inv[p].token
        response == Page(describe_instance_status(instanceState, ids),
                         IF token = None THEN FirstPage ELSE token[1])
        called == Append(inv[p].calls, Call("describe_instance_status", ids, token))
        statuses == inv[p].statuses \o response.Items
        with_state == [k \in 1..Len(instances) |->
                          [instances[k] EXCEPT
                              !.state = Some(status_by_instance_id(statuses, instances[k].id))]]
        \* the instances whose reported state InstanceState(...) rejects
        invalid == {k \in 1..Len(instances) :
                       status_by_instance_id(statuses, instances[k].id) \notin InstanceState}
    IN
    /\ inv[p].pc = "status"
    /\ \E answered \in Answers :
       IF ~answered
       THEN inv' = [inv EXCEPT ![p].pc = "done", ![p].calls = called,
                       ![p].statuses = <<>>, ![p].token = None,
                       ![p].response = Some(client_error)]
       ELSE IF pages_continue(response)
       THEN inv' = [inv EXCEPT ![p].calls = called, ![p].statuses = statuses,
                               ![p].token = response.NextToken]
       ELSE IF invalid # {}
       THEN \* InstanceState(name) raises ValueError at the first such instance
            LET k == CHOOSE j \in invalid : \A i \in invalid : j <= i
            IN inv' = [inv EXCEPT ![p].pc = "done", ![p].calls = called,
                       ![p].statuses = <<>>, ![p].token = None,
                       ![p].response = Some(from_exception("ValueError",
                           repr(<<status_by_instance_id(statuses, instances[k].id)>>)
                           \o <<" is not a valid InstanceState">>))]
       ELSE inv' = [inv EXCEPT ![p].pc = "done", ![p].calls = called,
                       ![p].statuses = <<>>, ![p].token = None,
                       ![p].instances = with_state,
                       ![p].response = Some(update_message(with_state))]
    /\ UNCHANGED <<verify_key, tagIndex, instanceState, paging, outages, lanes>>

(********************************* environment *****************************)
\* the provider completes a lifecycle transition on its own
progressed(state) ==
    CASE state = "pending" -> "running"
      [] state = "stopping" -> "stopped"
      [] state = "shutting-down" -> "terminated"
      [] OTHER -> state

ProviderProgress(i) ==
    /\ progressed(instanceState[i]) # instanceState[i]
    /\ instanceState' = [instanceState EXCEPT ![i] = progressed(instanceState[i])]
    /\ UNCHANGED <<verify_key, tagIndex, paging, outages, lanes, inv>>

\* an administrator moves the ownership tag of instance i to message m, or
\* removes it, while requests are in flight
retagged(index, i, owner) ==
    LET others == SelectSeq(index, LAMBDA e : ~(e.ResourceId = i /\ e.Key = TAG_KEY))
    IN IF owner = None THEN others ELSE Append(others, Tag(i, TAG_KEY, owner[1]))

Retag(i, owner) ==
    /\ retagged(tagIndex, i, owner) # tagIndex
    /\ tagIndex' = retagged(tagIndex, i, owner)
    /\ UNCHANGED <<verify_key, instanceState, paging, outages, lanes, inv>>

(******************************* specifications ****************************)
\* the provider as the administrator set it up with create-message.py and
\* the tagging convention: i-1 on message M1 with a display name, i-2 on M2
ManagedIndex ==
    <<Tag("i-1", TAG_KEY, "M1"), Tag("i-1", NAME_KEY, "db"), Tag("i-2", TAG_KEY, "M2")>>

\* any request, against the provider set up as intended
Init ==
    /\ verify_key \in BOOLEAN
    /\ tagIndex = ManagedIndex
    /\ instanceState \in [Instances -> {"stopped", "running"}]
    /\ paging = <<>>
    /\ outages = FALSE
    /\ lanes = 1
    /\ inv = [p \in Invocations |-> Idle]

Arrive(p) ==
    /\ p <= lanes
    /\ inv[p].pc = "idle"
    /\ \E ts \in Timestamps, body \in Bodies :
          \E sig \in Opt(SigHeaders(signed_message(ts, body))) :
             Receive(p, Request(sig, ts, body))

\* a handler that lets an invocation move only while no other invocation
\* stands between its ownership check and its lifecycle call
StepSerialized(p) ==
    /\ \A q \in Invocations \ {p} : inv[q].pc # "lifecycle"
    /\ \/ Verify(p)
       \/ Route(p)
       \/ Authorize(p)
       \/ Lifecycle(p)
       \/ ListInstances(p)
       \/ GetInstancesState(p)
       \/ Encode(p)
       \/ Finish(p)
Step(p) ==
    \/ Verify(p)
    \/ Route(p)
    \/ Authorize(p)
    \/ Lifecycle(p)
    \/ ListInstances(p)
    \/ GetInstancesState(p)
    \/ Encode(p)
    \/ Finish(p)

Next ==
    \/ \E p \in Invocations : Arrive(p)
    \/ \E p \in Invocations : Step(p)
    \/ \E i \in Instances : ProviderProgress(i)

Spec == Init /\ [][Next]_vars

\* correctly signed button presses, against any provider tag index
SignedRequest(ts, body) ==
    Request(Some([hex |-> TRUE, len |-> SignatureBytes, of |-> signed_message(ts, body)]),
            ts, body)

ComponentRequests ==
    {SignedRequest(Some("t1"),
        [form |-> "json", data |-> Component(m, c)]) :
     m \in MsgIds,
     c \in {<<"refresh">>} \cup {<<a, ":", i>> : a \in {"start", "stop"}, i \in Targets}}

InitDirectory ==
    /\ verify_key = TRUE
    /\ tagIndex \in TagIndexes
    /\ instanceState \in [Instances -> {"stopped", "running"}]
    /\ paging = <<>>
    /\ outages = FALSE
    /\ lanes = 1
    /\ inv = [p \in Invocations |-> Idle]

Press(p) ==
    /\ p <= lanes
    /\ inv[p].pc = "idle"
    /\ \E request \in ComponentRequests : Receive(p, request)

NextDirectory ==
    \/ \E p \in Invocations : Press(p)
    \/ \E p \in Invocations : Step(p)
    \/ \E i \in Instances : ProviderProgress(i)

SpecDirectory == InitDirectory /\ [][NextDirectory]_vars

\* button presses against any tag index EC2 can hold (one value per
\* resource and key), listed in any order, with instances in any state
WellFormedIndexes ==
    {index \in UNION {[1..n -> TagEntries] : n \in 0..(2 * Cardinality(Instances))} :
        \A j, k \in 1..Len(index) :
            (index[j].ResourceId = index[k].ResourceId /\ index[j].Key = index[k].Key)
                => j = k}

InitRender ==
    /\ verify_key = TRUE
    /\ tagIndex \in WellFormedIndexes
    /\ instanceState \in [Instances -> InstanceState]
    /\ paging = <<>>
    /\ outages = FALSE
    /\ lanes = 1
    /\ inv = [p \in Invocations |-> Idle]

SpecRender == InitRender /\ [][NextDirectory]_vars

\* a refresh and a start press on one message, against any tag index that
\* the provider serves in pages of any sizes
PageSizes == UNION {[1..n -> 0..PageSize] : n \in 0..MaxPages}

ListingRequests ==
    {SignedRequest(Some("t1"),
        [form |-> "json", data |-> Component("M1", c)]) :
     c \in {<<"refresh">>, <<"start", ":", "i-1">>}}

InitPages ==
    /\ verify_key = TRUE
    /\ tagIndex \in TagIndexes
    /\ instanceState = [i \in Instances |-> "stopped"]
    /\ paging \in PageSizes
    /\ outages = FALSE
    /\ lanes = 1
    /\ inv = [p \in Invocations |-> Idle]

PressListing(p) ==
    /\ p <= lanes
    /\ inv[p].pc = "idle"
    /\ \E request \in ListingRequests : Receive(p, request)

NextPages ==
    \/ \E p \in Invocations : PressListing(p)
    \/ \E p \in Invocations : Step(p)
    \/ \E i \in Instances : ProviderProgress(i)

SpecPages == InitPages /\ [][NextPages]_vars

\* two invocations in flight handling presses of start:i-1 / stop:i-1 on
\* the owning message, while an administrator may move the ownership tags
ConcurrentRequests ==
    {SignedRequest(Some("t1"),
        [form |-> "json", data |-> Component("M1", <<a, ":", "i-1">>)]) :
     a \in {"start", "stop"}}

InitConcurrent ==
    /\ verify_key = TRUE
    /\ tagIndex = ManagedIndex
    /\ instanceState = [i \in Instances |-> "stopped"]
    /\ paging = <<>>
    /\ outages = FALSE
    /\ lanes = Cardinality(Invocations)
    /\ inv = [p \in Invocations |-> Idle]

PressConcurrent(p) ==
    /\ p <= lanes
    /\ inv[p].pc = "idle"
    /\ \E request \in ConcurrentRequests : Receive(p, request)

Administer == \E i \in Instances, owner \in Opt(MsgIds) : Retag(i, owner)

NextConcurrent ==
    \/ \E p \in Invocations : PressConcurrent(p)
    \/ \E p \in Invocations : Step(p)
    \/ \E i \in Instances : ProviderProgress(i)
    \/ Administer

SpecConcurrent == InitConcurrent /\ [][NextConcurrent]_vars

\* one request of every kind handle_request tells apart, against any tag
\* index, a provider that may fail any call, and instances that may report
\* "impaired", a state name the enum of main.py:152-160 does not have
FaultBodies ==
    {[form |-> f, data |-> NoFields] : f \in {"none", "empty", "badutf8", "badjson"}}
    \cup {[form |-> "json", data |-> d] : d \in
            {[NoFields EXCEPT !.kind = "array"],
             [NoFields EXCEPT !.kind = "object"],
             [NoFields EXCEPT !.kind = "object", !.type = Some(1)],
             [NoFields EXCEPT !.kind = "object", !.type = Some(2)],
             [NoFields EXCEPT !.kind = "object", !.type = Some(3)],
             [NoFields EXCEPT !.kind = "object", !.type = Some(3), !.message = "other"],
             [Component("M1", <<>>) EXCEPT !.data = "other", !.custom_id = None],
             [Component("M1", <<>>) EXCEPT !.custom_id_type = "int", !.custom_id = None],
             [Component("M1", <<>>) EXCEPT !.custom_id = None]}
            \cup {Component("M1", c) : c \in
                    {<<>>, <<"launch">>, <<"start">>, <<"refresh">>,
                     <<"refresh", ":", "i-1">>, <<"start", ":", "i-1">>,
                     <<"stop", ":", "i-1">>, <<"start", ":", "i-2">>,
                     <<"start", ":", "i-9">>}}}

FaultRequests ==
    {SignedRequest(Some("t1"), body) : body \in FaultBodies}
    \cup {Request(sig, Some("t1"), [form |-> "json", data |-> Component("M1", <<"refresh">>)]) :
            sig \in Opt(SigHeaders(ReplayedMessage))}
    \cup {NoRequest}

InitFaults ==
    /\ verify_key = TRUE
    /\ tagIndex \in TagIndexes
    /\ instanceState \in [Instances -> {"stopped", "impaired"}]
    /\ paging = <<>>
    /\ outages = TRUE
    /\ lanes = 1
    /\ inv = [p \in Invocations |-> Idle]

ArriveFaults(p) ==
    /\ p <= lanes
    /\ inv[p].pc = "idle"
    /\ \E request \in FaultRequests : Receive(p, request)

NextFaults ==
    \/ \E p \in Invocations : ArriveFaults(p)
    \/ \E p \in Invocations : Step(p)
    \/ \E i \in Instances : ProviderProgress(i)

SpecFaults == InitFaults /\ [][NextFaults]_vars

(*********************************** claims ********************************)
LifecycleOps == {"start_instances", "stop_instances"}

IssuedLifecycle(p) ==
    \E k \in 1..Len(inv[p].calls) : inv[p].calls[k].op \in LifecycleOps

Responded(p, status_code) ==
    inv[p].pc \in {"done", "returned"} /\ inv[p].response[1].status_code = status_code

\* the request carries the application key's signature over its own,
\* non-empty, timestamp + body (or no key is configured)
Authentic(request) ==
    \/ ~verify_key
    \/ /\ request.sig # None
       /\ request.sig[1].hex
       /\ request.sig[1].len = SignatureBytes
       /\ request.sig[1].of = signed_message(request.ts, request.body)
       /\ ~message_is_empty(signed_message(request.ts, request.body))

\* the handler is past request authentication
PastVerify(p) == inv[p].pc \notin {"idle", "verify"}

IsObject(request) == request.body.form = "json" /\ request.body.data.kind = "object"

\* a type-3 interaction with a message id and a non-empty custom id
IsComponent(request) ==
    /\ IsObject(request)
    /\ request.body.data.type = Some(3)
    /\ request.body.data.message_id # None
    /\ request.body.data.custom_id \notin {None, Some(<<>>)}

CustomIdOf(request) == request.body.data.custom_id[1]
MessageIdOf(request) == request.body.data.message_id[1]

\* the custom id reads <action>:<target> for one of the given actions
HasForm(custom_id, actions) ==
    Len(custom_id) >= 2 /\ custom_id[1] \in actions /\ custom_id[2] = ":"

TargetOf(custom_id) == SubSeq(custom_id, 3, Len(custom_id))

\* a start:<id> or stop:<id> press
IsLifecyclePress(request) ==
    IsComponent(request) /\ HasForm(CustomIdOf(request), {"start", "stop"})

\* the values of the ownership tags the provider holds for a target
OwnershipTags(target) ==
    LET at == SelectSeq(tagIndex,
                  LAMBDA e : e.Key = TAG_KEY /\ <<e.ResourceId>> = target)
    IN [k \in 1..Len(at) |-> at[k].Value]

\* the handler has done the ownership lookup of a press
PastLookup(p) == inv[p].pc \in {"lifecycle", "list", "status", "done", "returned"}

\* C1: an authenticated start:<id> / stop:<id> press whose target's ownership
\* tag resolves (one tag, or the first of two, which main.py:291 lets through)
\* to a value other than the message id of the interaction ends in a 403
\* right after the lookup, and no start_instances / stop_instances call is
\* ever issued for it.
C1_ForeignMessageForbidden ==
    \A p \in Invocations :
        LET request == inv[p].request
            tags == OwnershipTags(TargetOf(CustomIdOf(request)))
        IN (/\ IsLifecyclePress(request) /\ Authentic(request)
            /\ Len(tags) \in {1, 2} /\ tags[1] # MessageIdOf(request))
           => /\ ~IssuedLifecycle(p)
              /\ PastLookup(p) => Responded(p, 403)

C1_Witness ==
    \E p \in Invocations :
        /\ IsLifecyclePress(inv[p].request)
        /\ Len(OwnershipTags(TargetOf(CustomIdOf(inv[p].request)))) = 1
        /\ inv[p].instance_message_id # None
        /\ inv[p].instance_message_id # inv[p].request.body.data.message_id
        /\ Responded(p, 403)

\* C2: an authenticated start:<id> / stop:<id> press whose target has no
\* ownership tag at the provider (unmanaged or non-existent instance) ends
\* in a 403 and never issues a start_instances / stop_instances call.
C2_UnmanagedForbidden ==
    \A p \in Invocations :
        LET request == inv[p].request
        IN (/\ IsLifecyclePress(request) /\ Authentic(request)
            /\ OwnershipTags(TargetOf(CustomIdOf(request))) = <<>>)
           => /\ ~IssuedLifecycle(p)
              /\ PastLookup(p) => Responded(p, 403)

C2_Witness ==
    \E p \in Invocations :
        /\ IsLifecyclePress(inv[p].request)
        /\ OwnershipTags(TargetOf(CustomIdOf(inv[p].request))) = <<>>
        /\ Len(inv[p].calls) = 1 /\ inv[p].calls[1].op = "describe_tags"
        /\ Responded(p, 403)

\* C3: with a verification key configured, a request without a signature
\* header is answered 401 whatever its timestamp and body are.
C3_MissingSignatureIs401 ==
    \A p \in Invocations :
        (verify_key /\ inv[p].request.sig = None /\ inv[p].pc \in {"done", "returned"})
            => Responded(p, 401)

\* C4: with a verification key configured, a request whose signed message is
\* empty or whose signature does not verify over it is answered 401, its
\* body is never parsed or dispatched and no provider call is issued.
C4_AuthenticationFirst ==
    \A p \in Invocations :
        (verify_key /\ inv[p].pc # "idle" /\ ~Authentic(inv[p].request))
            => /\ inv[p].pc \in {"verify", "done", "returned"}
               /\ inv[p].calls = <<>>
               /\ inv[p].pc \in {"done", "returned"} => Responded(p, 401)

\* C5: an authenticated ping (JSON object with type 1) is answered 200 with
\* body {type: 1}, whatever message id and custom id it carries, and no
\* provider call is issued for it.
IsPing(request) == IsObject(request) /\ request.body.data.type = Some(1)

C5_PingPong ==
    \A p \in Invocations :
        (IsPing(inv[p].request) /\ Authentic(inv[p].request) /\ PastVerify(p))
            => /\ inv[p].calls = <<>>
               /\ inv[p].pc \in {"route", "done", "returned"}
               /\ inv[p].pc \in {"done", "returned"} =>
                    /\ Responded(p, 200)
                    /\ inv[p].response[1].data = [type |-> 1, components |-> <<>>]

C5_Witness ==
    \E p \in Invocations :
        /\ IsPing(inv[p].request)
        /\ inv[p].request.body.data.custom_id = Some(<<"start", ":", "i-1">>)
        /\ inv[p].request.body.data.message_id = Some("M1")
        /\ verify_key
        /\ Responded(p, 200)

\* C6: an authenticated type-3 interaction with a message id and a non-empty
\* custom id that is neither `refresh` nor <action>:<target> with action one
\* of start, stop, refresh is answered 400 and issues no provider call; the
\* bare `start` and `stop` are such ids.
InGrammar(custom_id) ==
    custom_id = <<"refresh">> \/ HasForm(custom_id, {"start", "stop", "refresh"})

C6_UnknownCustomIdIs400 ==
    \A p \in Invocations :
        (/\ IsComponent(inv[p].request) /\ Authentic(inv[p].request)
         /\ ~InGrammar(CustomIdOf(inv[p].request)) /\ PastVerify(p))
            => /\ inv[p].calls = <<>>
               /\ inv[p].pc \in {"done", "returned"} => Responded(p, 400)

\* C7: an authenticated request whose body is absent, is not UTF-8 JSON, or
\* is JSON but not an object is answered 400, never 500, and issues no
\* provider call.
C7_MalformedBodyIs400 ==
    \A p \in Invocations :
        (/\ Authentic(inv[p].request) /\ ~IsObject(inv[p].request) /\ PastVerify(p))
            => /\ inv[p].calls = <<>>
               /\ inv[p].pc \in {"done", "returned"} => Responded(p, 400)

\* C8: an authenticated request whose body is a JSON object is answered 400
\* when the type is missing, when the type is neither 1 nor 3, and when a
\* type-3 payload has no message id or no (or an empty) custom id; none of
\* these requests issues a provider call.  A payload whose "message" (or
\* "data") member is not an object has no message id (no custom id).
Invalid(request) ==
    LET data == request.body.data
    IN /\ IsObject(request)
       /\ \/ data.type \notin {Some(1), Some(3)}
          \/ data.type = Some(3) /\ data.message_id = None
          \/ /\ data.type = Some(3) /\ data.custom_id_type = "str"
             /\ data.custom_id \in {None, Some(<<>>)}

C8_InvalidPayloadIs400 ==
    \A p \in Invocations :
        (Invalid(inv[p].request) /\ Authentic(inv[p].request) /\ PastVerify(p))
            => /\ inv[p].calls = <<>>
               /\ inv[p].pc \in {"route", "done", "returned"}
               /\ inv[p].pc \in {"done", "returned"} => Responded(p, 400)

\* C9: a start:<id> / stop:<id> press whose target carries two or more
\* ownership tags ends in a 500 and issues no start_instances /
\* stop_instances call, even when the first tag names the pressing message.
C9_DuplicateTagsAreFatal ==
    \A p \in Invocations :
        LET request == inv[p].request
        IN (/\ IsLifecyclePress(request) /\ Authentic(request)
            /\ Len(OwnershipTags(TargetOf(CustomIdOf(request)))) >= 2)
           => /\ ~IssuedLifecycle(p)
              /\ PastLookup(p) => Responded(p, 500)

\* C10: the control grid of every update-message (type 7) response is the
\* `refresh` row followed by exactly one row per instance whose listed
\* ownership tag equals the message id of the interaction: no other
\* instance has a row, no owned instance is missing or has two rows.
ListedOwner(i) ==
    LET at == {k \in 1..Len(tagIndex) :
                  tagIndex[k].ResourceId = i /\ tagIndex[k].Key = TAG_KEY}
    IN IF at = {} THEN None
       ELSE Some(tagIndex[CHOOSE k \in at : \A j \in at : j <= k].Value)

OwnedInstances(message_id) == {i \in Instances : ListedOwner(i) = Some(message_id)}

IsUpdate(p) == Responded(p, 200) /\ inv[p].response[1].data.type = 7

C10_GridIsOwnedInstances ==
    \A p \in Invocations :
        IsUpdate(p) =>
            LET rows == inv[p].response[1].data.components
                owned == OwnedInstances(MessageIdOf(inv[p].request))
            IN /\ Len(rows) = 1 + Cardinality(owned)
               /\ rows[1].custom_id = <<"refresh">>
               /\ \A k \in 2..Len(rows) :
                     /\ Len(rows[k].custom_id) = 3
                     /\ rows[k].custom_id[1] \in {"start", "stop", "refresh"}
                     /\ rows[k].custom_id[2] = ":"
                     /\ rows[k].custom_id[3] \in owned
               /\ \A i \in owned :
                     \E k \in 2..Len(rows) : rows[k].custom_id[3] = i

C10_Witness ==
    \E p \in Invocations :
        /\ IsUpdate(p)
        /\ OwnedInstances(MessageIdOf(inv[p].request)) = {"i-1"}
        /\ ListedOwner("i-2") = Some("M2")
        /\ MessageIdOf(inv[p].request) = "M1"
        /\ Len(inv[p].response[1].data.components) = 2

\* the Name tag the whole listing gives instance i (the last one), or None
ListedNameTag(i) ==
    LET at == {k \in 1..Len(tagIndex) :
                  tagIndex[k].ResourceId = i /\ tagIndex[k].Key = NAME_KEY}
    IN IF at = {} THEN None
       ELSE Some(tagIndex[CHOOSE k \in at : \A j \in at : j <= k].Value)

\* the display name of instance i: the value of its Name tag when it has
\* one that is not empty, else the identifier
ListedName(i) ==
    IF ListedNameTag(i) \notin {None, Some("")} THEN ListedNameTag(i)[1] ELSE i

\* the display name read as "the Name tag, or the identifier when the
\* instance has no Name tag"
NameTagOrId(i) == IF ListedNameTag(i) # None THEN ListedNameTag(i)[1] ELSE i

\* the instance rows of the update response of invocation p
InstanceRows(p) == Tail(inv[p].response[1].data.components)
RowId(row) == row.custom_id[3]

\* C11: in every update-message response the instance rows are in ascending
\* order of display name (Name tag, else the identifier), and rows with the
\* same display name are in ascending order of instance identifier, whatever
\* order the provider lists the tags in.
C11_RowsOrderedByNameThenId ==
    \A p \in Invocations :
        IsUpdate(p) =>
            LET rows == InstanceRows(p)
            IN \A k \in 1..(Len(rows) - 1) :
                  \/ StrLess(ListedName(RowId(rows[k])), ListedName(RowId(rows[k + 1])))
                  \/ /\ ListedName(RowId(rows[k])) = ListedName(RowId(rows[k + 1]))
                     /\ StrLess(RowId(rows[k]), RowId(rows[k + 1]))

\* the row the claim gives an instance for the state the status call
\* reported and a display name
ClaimedRow(id, state, name) ==
    CASE state = "stopped" ->
           [label |-> <<"Start ", name>>, style |-> 3, custom_id |-> <<"start", ":", id>>]
      [] state = "running" ->
           [label |-> <<"Stop ", name>>, style |-> 4, custom_id |-> <<"stop", ":", id>>]
      [] OTHER ->
           [label |-> <<name, " (", state, ")">>, style |-> 2,
            custom_id |-> <<"refresh", ":", id>>]

\* C12 as stated: every instance row of an update-message response is the
\* row of the reported state (stopped: style 3, "Start <name>", start:<id>;
\* running: style 4, "Stop <name>", stop:<id>; any other: style 2,
\* "<name> (<state>)", refresh:<id>) where <name> is the Name tag, or the
\* identifier when the instance has no Name tag.
C12_RowFollowsState_NameTagOrId ==
    \A p \in Invocations :
        IsUpdate(p) =>
            LET rows == InstanceRows(p)
            IN /\ Len(rows) = Len(inv[p].instances)
               /\ \A k \in 1..Len(rows) :
                     rows[k] = ClaimedRow(inv[p].instances[k].id,
                                          inv[p].instances[k].state[1],
                                          NameTagOrId(inv[p].instances[k].id))

\* C12 amended: the same rows, where <name> is the Name tag when the
\* instance has one that is not empty, and the identifier otherwise.  So a
\* start or stop control is offered only for a stopped or running instance.
C12_RowFollowsState ==
    \A p \in Invocations :
        IsUpdate(p) =>
            LET rows == InstanceRows(p)
            IN /\ Len(rows) = Len(inv[p].instances)
               /\ \A k \in 1..Len(rows) :
                     /\ rows[k] = ClaimedRow(inv[p].instances[k].id,
                                             inv[p].instances[k].state[1],
                                             ListedName(inv[p].instances[k].id))
                     /\ rows[k].custom_id[1] \in {"start", "stop"} =>
                           inv[p].instances[k].state[1] \in {"stopped", "running"}

\* a stopped instance with an empty Name tag is labelled by its identifier,
\* next to one in an intermediate state that has no Name tag
C12_Witness ==
    \E p \in Invocations :
        /\ IsUpdate(p)
        /\ Len(InstanceRows(p)) = 2
        /\ inv[p].instances[1].state = Some("stopped")
        /\ ListedNameTag("i-1") = Some("")
        /\ InstanceRows(p)[1].label = <<"Start ", "i-1">>
        /\ inv[p].instances[2].state = Some("shutting-down")
        /\ InstanceRows(p)[2] = [label |-> <<"i-2", " (", "shutting-down", ")">>,
                                 style |-> 2, custom_id |-> <<"refresh", ":", "i-2">>]

\* an authentic press of `refresh` or of refresh:<target>
IsRefreshPress(request) ==
    /\ IsComponent(request) /\ Authentic(request)
    /\ CustomIdOf(request) = <<"refresh">> \/ HasForm(CustomIdOf(request), {"refresh"})

\* the response the handler gives a plain `refresh` of message `message_id`
\* when it reads the provider in the current state
PlainRefresh(message_id) ==
    LET listing == describe_tags_by_key(tagIndex, {TAG_KEY, NAME_KEY})
        instances == sorted_by_name(owned_by(group_tags(listing, <<>>), message_id))
    IN update_message([k \in 1..Len(instances) |->
           [instances[k] EXCEPT !.state = Some(instanceState[instances[k].id])]])

\* C13: a press of `refresh` or refresh:<target>, whatever the target, never
\* reaches the ownership lookup or a lifecycle call: every provider call it
\* issues is the tag listing or the status listing, and the provider state
\* is left as it was.  When it reads the instance states it answers exactly
\* what a plain `refresh` of the same message answers in that provider state.
C13_RefreshOnlyRenders ==
    /\ [](\A p \in Invocations :
            IsRefreshPress(inv[p].request) =>
                /\ inv[p].pc \notin {"authorize", "lifecycle"}
                /\ inv[p].instance_message_id = None
                /\ \A k \in 1..Len(inv[p].calls) :
                      /\ inv[p].calls[k].op \in {"describe_tags", "describe_instance_status"}
                      /\ inv[p].calls[k].op = "describe_tags" => inv[p].calls[k].ids = <<>>
                /\ inv[p].pc \in {"done", "returned"} => IsUpdate(p))
    /\ [][\A p \in Invocations :
            (IsRefreshPress(inv[p].request) /\ inv'[p] # inv[p] /\ inv[p].pc # "idle")
                => /\ instanceState' = instanceState /\ tagIndex' = tagIndex
                   /\ (inv[p].pc = "status" /\ inv[p].statuses = <<>> /\ inv'[p].pc = "done") =>
                         inv'[p].response = Some(PlainRefresh(MessageIdOf(inv[p].request)))]_vars

C13_Witness ==
    \E p \in Invocations :
        /\ IsRefreshPress(inv[p].request)
        /\ CustomIdOf(inv[p].request) = <<"refresh", ":", "i-2">>
        /\ MessageIdOf(inv[p].request) = "M1"
        /\ ListedOwner("i-2") = Some("M2")
        /\ IsUpdate(p)
        /\ Len(InstanceRows(p)) = 1
        /\ Len(inv[p].calls) = 3

\* classes of the exceptions, other than HTTPError, that handling can raise
ExceptionClasses ==
    {"ValueError", "UnicodeDecodeError", "JSONDecodeError", "AttributeError",
     "RuntimeError", "ClientError"}

\* C14: whatever happens during handling, main holds a response whose
\* status is 200, 400, 401, 403 or 500 (never 204) and whose body is not
\* empty: an HTTPError keeps its status and message, any other exception
\* gives a 500 whose body is "<class name>: <message>"; encoding that
\* response never raises, and the Lambda result carries the same status
\* and body as text.
C14_AlwaysWellFormed ==
    \A p \in Invocations :
        /\ inv[p].pc \in {"done", "returned"} =>
              LET response == inv[p].response[1]
              IN /\ inv[p].response # None
                 /\ response.status_code \in {200, 400, 401, 403, 500}
                 /\ response.status_code = 200 =>
                       /\ response.content_type = "application/json; charset=utf-8"
                       /\ response.data.type \in {1, 7}
                 /\ response.status_code \in {400, 401, 403} =>
                       /\ response.content_type = "text/plain; charset=utf-8"
                       /\ Len(response.text) = 1 /\ response.text[1] # ""
                 /\ response.status_code = 500 =>
                       /\ response.content_type = "text/plain; charset=utf-8"
                       /\ Len(response.text) >= 3
                       /\ response.text[1] \in ExceptionClasses
                       /\ response.text[2] = ": "
        /\ inv[p].pc = "returned" =>
              LET result == inv[p].result[1]
              IN /\ inv[p].result # None
                 /\ result.raised = ""
                 /\ result.statusCode = inv[p].response[1].status_code
                 /\ result.hasBody /\ ~result.isBase64Encoded
                 /\ result.text = inv[p].response[1].text
                 /\ result.data = inv[p].response[1].data

\* the second page of the tag listing of a start press failed after the
\* lifecycle call went through: main still returns a 500 envelope
C14_Witness ==
    \E p \in Invocations :
        /\ inv[p].pc = "returned"
        /\ IssuedLifecycle(p)
        /\ Len(inv[p].calls) = 4
        /\ inv[p].calls[4].op = "describe_tags" /\ inv[p].calls[4].token # None
        /\ inv[p].result[1].raised = ""
        /\ inv[p].result[1].statusCode = 500
        /\ inv[p].result[1].text[1] = "ClientError"

\* the one response given for a target that has no ownership tag
Forbidden403 ==
    [status_code |-> 403, content_type |-> "text/plain; charset=utf-8",
     text |-> <<"Not allowed: instance doesn't exist or isn't managed by svrmgr">>,
     data |-> NoData]

\* C15: for a start:<id> / stop:<id> press whose target has no ownership
\* tag, the response is one fixed 403, the same whether <id> is an instance
\* the provider has (untagged) or one it does not have, and whatever <id>
\* and the provider state are; the only provider call is the ownership
\* lookup, so the set of lifecycle calls is empty in both cases.
C15_UnmanagedIsIndistinguishable ==
    \A p \in Invocations :
        LET request == inv[p].request
            target == TargetOf(CustomIdOf(request))
        IN (/\ IsLifecyclePress(request) /\ Authentic(request)
            /\ OwnershipTags(target) = <<>>
            /\ PastLookup(p))
           => /\ inv[p].response = Some(Forbidden403)
              /\ inv[p].calls = <<[op |-> "describe_tags", ids |-> <<target>>, token |-> None]>>
              /\ \A i \in Instances : \A k \in 1..Len(inv[p].response[1].text) :
                    inv[p].response[1].text[k] # i

C15_Witness ==
    \E p \in Invocations :
        /\ IsLifecyclePress(inv[p].request)
        /\ TargetOf(CustomIdOf(inv[p].request)) = <<"i-1">>
        /\ "i-1" \in DOMAIN instanceState
        /\ OwnershipTags(<<"i-1">>) = <<>>
        /\ ListedName("i-1") = "db"
        /\ inv[p].pc = "returned"
        /\ inv[p].result[1].statusCode = 403
        /\ inv[p].response = Some(Forbidden403)

\* the response reports the RuntimeError of get_message_id_for_instance
IsIntegrityFault(p) ==
    /\ Responded(p, 500)
    /\ inv[p].response[1].text[1] = "RuntimeError"

\* C16: the 500 response given when the duplicate-ownership-tag fault is
\* raised is generic: no piece of its body is the identifier of the
\* instance named in the interaction.
C16_IntegrityFaultIsGeneric ==
    \A p \in Invocations :
        IsIntegrityFault(p) =>
            LET target == TargetOf(CustomIdOf(inv[p].request))
                text == inv[p].response[1].text
            IN \A k \in 1..Len(text) : \A j \in 1..Len(target) : text[k] # target[j]

\* the custom id of the row that `rows` has for instance i
RowOf(rows, i) == rows[CHOOSE k \in 1..Len(rows) : RowId(rows[k]) = i].custom_id

\* invocation p takes step `from` of handle_request
Takes(p, from) == inv[p].pc = from /\ inv'[p].pc # from

\* C17: round trip on a message M.  When the handler reads the instance
\* states, an instance owned by M that the provider reports stopped gets a
\* start:<id> row, one reported running gets a stop:<id> row (never
\* start:<id>), one reported pending or stopping gets a refresh:<id> row.
\* When an authorized start:<id> press reaches its lifecycle call, the call
\* it issues is exactly start_instances for <id>.
C17_RoundTrip ==
    [][\A p \in Invocations :
        /\ Takes(p, "status") =>
              LET rows == Tail(inv'[p].response[1].data.components)
              IN \A i \in OwnedInstances(MessageIdOf(inv[p].request)) :
                    /\ \E k \in 1..Len(rows) : RowId(rows[k]) = i
                    /\ instanceState[i] = "stopped" => RowOf(rows, i) = <<"start", ":", i>>
                    /\ instanceState[i] = "running" => RowOf(rows, i) = <<"stop", ":", i>>
                    /\ instanceState[i] \in {"pending", "stopping"} =>
                          RowOf(rows, i) = <<"refresh", ":", i>>
        /\ (Takes(p, "lifecycle") /\ HasForm(CustomIdOf(inv[p].request), {"start"})) =>
              /\ inv[p].instance_message_id = Some(MessageIdOf(inv[p].request))
              /\ inv'[p].calls =
                    Append(inv[p].calls,
                           [op |-> "start_instances",
                            ids |-> <<TargetOf(CustomIdOf(inv[p].request))>>,
                            token |-> None])]_vars

\* a start:i-1 press on the owning message issued its start call, and the
\* response of that request, read when the provider reported i-1 running,
\* offers stop:i-1
C17_Witness ==
    \E p \in Invocations :
        /\ IsUpdate(p)
        /\ CustomIdOf(inv[p].request) = <<"start", ":", "i-1">>
        /\ \E k \in 1..Len(inv[p].calls) :
              inv[p].calls[k] = [op |-> "start_instances", ids |-> <<<<"i-1">>>>, token |-> None]
        /\ "i-1" \in OwnedInstances(MessageIdOf(inv[p].request))
        /\ RowOf(InstanceRows(p), "i-1") = <<"stop", ":", "i-1">>

\* what the provider lists for the filters of list_instances
Listing == SelectSeq(tagIndex, LAMBDA e : e.Key \in {TAG_KEY, NAME_KEY})

\* the page the provider serves for the token a call passes
Served(call) == Page(Listing, IF call.token = None THEN FirstPage ELSE call.token[1])

\* C18: the tag listing of list_instances issues its first describe_tags
\* call without a token, every further call with exactly the token the
\* previous page returned, goes on after a page that has a token even if
\* the page has no items, and stops at the first page without a token; the
\* pages it read hold every listed tag, and each owned instance comes out
\* once, with the owner and the name that the tags of all pages give it.
C18_PaginationReadsAllPages ==
    [][\A p \in Invocations :
        Takes(p, "list") =>
            LET calls == SelectSeq(inv'[p].calls,
                             LAMBDA c : c.op = "describe_tags" /\ c.ids = <<>>)
                n == Len(calls)
                instances == inv'[p].instances
            IN /\ n >= 1
               /\ calls[1].token = None
               /\ calls[n] = inv'[p].calls[Len(inv'[p].calls)]
               /\ \A k \in 1..(n - 1) :
                     /\ Served(calls[k]).NextToken # None
                     /\ calls[k + 1].token = Served(calls[k]).NextToken
               /\ Served(calls[n]).NextToken = None
               /\ \A j \in 1..Len(Listing) :
                     \E k \in 1..n : \E x \in 1..Len(Served(calls[k]).Items) :
                        Served(calls[k]).Items[x] = Listing[j]
               /\ {instances[k].id : k \in 1..Len(instances)}
                     = OwnedInstances(MessageIdOf(inv[p].request))
               /\ \A j, k \in 1..Len(instances) : instances[j].id = instances[k].id => j = k
               /\ \A k \in 1..Len(instances) :
                     /\ instances[k].tags.owner = ListedOwner(instances[k].id)
                     /\ instances[k].tags.name = ListedNameTag(instances[k].id)]_vars

\* three pages were read, the second one empty but with a token, and the
\* two tags of i-1 arrived on the first and the third
C18_Witness ==
    \E p \in Invocations :
        /\ inv[p].pc = "status"
        /\ paging = <<1, 0>>
        /\ tagIndex = <<Tag("i-1", TAG_KEY, "M1"), Tag("i-1", NAME_KEY, "db")>>
        /\ Len(inv[p].calls) = 3
        /\ Served(inv[p].calls[2]).Items = <<>>
        /\ Served(inv[p].calls[2]).NextToken # None
        /\ inv[p].instances =
              <<[id |-> "i-1", tags |-> [owner |-> Some("M1"), name |-> Some("db")],
                 state |-> None]>>

\* C19: nothing makes an invocation wait for another one or holds the
\* provider still for it: an invocation that is at its ownership check or
\* between the check and its lifecycle call can always take its next step,
\* wherever the other invocation stands, and the ownership tags can be
\* changed while it stands there.  So two presses on the same button can
\* both pass the check before either lifecycle call is issued, and a
\* lifecycle call can follow a check that the provider no longer supports.
C19_NoMutualExclusion ==
    \A p \in Invocations :
        inv[p].pc \in {"authorize", "lifecycle"} =>
            /\ ENABLED Step(p)
            /\ ENABLED Administer

\* both invocations passed the check for start:i-1 and neither has issued
\* its call yet, while the ownership tag of i-1 has already been removed
C19_Witness ==
    /\ \A p \in Invocations :
          /\ inv[p].pc = "lifecycle"
          /\ inv[p].custom_id = <<"start", ":", "i-1">>
          /\ inv[p].instance_message_id = inv[p].message_id
          /\ ~IssuedLifecycle(p)
    /\ OwnershipTags(<<"i-1">>) = <<>>

\* positions of the lifecycle calls in the calls of invocation p
LifecycleCalls(p) == {k \in 1..Len(inv[p].calls) : inv[p].calls[k].op \in LifecycleOps}

\* a call of the re-render: the tag listing or the status listing
IsListingCall(call) ==
    \/ call.op = "describe_tags" /\ call.ids = <<>>
    \/ call.op = "describe_instance_status"

\* C20: one request issues at most one lifecycle call.  The ownership
\* lookup, when made, is the first call and names the text after the first
\* colon of the custom id.  A lifecycle call is the second call, right
\* after that lookup, for the same target, start_instances for a start
\* press and stop_instances for a stop press, and the lookup returned the
\* message id of the interaction.  Every tag or status listing of such a
\* request comes after the lifecycle call.  A request that ends right after
\* its lifecycle call (the call raised) answers 500 without having listed
\* or rendered anything.
C20_OneLifecycleCallInOrder ==
    \A p \in Invocations :
        LET calls == inv[p].calls
            custom_id == CustomIdOf(inv[p].request)
            target == TargetOf(custom_id)
        IN /\ Cardinality(LifecycleCalls(p)) <= 1
           /\ \A k \in 1..Len(calls) :
                 ~IsListingCall(calls[k]) /\ k \notin LifecycleCalls(p) =>
                     k = 1 /\ calls[1] = [op |-> "describe_tags", ids |-> <<target>>,
                                          token |-> None]
           /\ \A k \in LifecycleCalls(p) :
                 /\ k = 2
                 /\ calls[1] = [op |-> "describe_tags", ids |-> <<target>>, token |-> None]
                 /\ calls[2].ids = <<target>>
                 /\ calls[2].op = "start_instances" <=> custom_id[1] = "start"
                 /\ calls[2].op = "stop_instances" <=> custom_id[1] = "stop"
                 /\ inv[p].instance_message_id = Some(MessageIdOf(inv[p].request))
                 /\ \A j \in 3..Len(calls) : IsListingCall(calls[j])
           /\ (Len(calls) >= 1 /\ ~IsListingCall(calls[1])) =>
                 \A j \in 1..Len(calls) : IsListingCall(calls[j]) =>
                     LifecycleCalls(p) = {2} /\ j > 2
           /\ (LifecycleCalls(p) # {} /\ inv[p].pc \in {"done", "returned"}) =>
                 \/ Len(calls) = 2 /\ Responded(p, 500) /\ inv[p].instances = <<>>
                 \/ Len(calls) >= 4 /\ IsUpdate(p)

C20_Witness ==
    \E p \in Invocations :
        /\ IsLifecyclePress(inv[p].request)
        /\ CustomIdOf(inv[p].request) = <<"stop", ":", "i-1">>
        /\ MessageIdOf(inv[p].request) = "M1"
        /\ LifecycleCalls(p) = {2}
        /\ inv[p].calls[2] = [op |-> "stop_instances", ids |-> <<<<"i-1">>>>, token |-> None]
        /\ Len(inv[p].calls) = 5
        /\ IsUpdate(p)

====
